---------------------------- MODULE Spec2Model ----------------------------
(***************************************************************************)
(* DHALSIM control network.  Three units of the repository are modelled:   *)
(*   - InputParser.generate_controls (dhalsim/parser/input_parser.py):     *)
(*     control statements -> descriptors -> per-PLC controls lists;        *)
(*   - GenericPLC (dhalsim/python2/generic_plc.py): the controller that    *)
(*     loads its controls and evaluates them in main_loop;                 *)
(*   - SCADAServer (ICS_topologies/enhanced_ctown_topology/scada.py): the  *)
(*     collector that polls tank levels and writes them out on a signal.   *)
(* Each unit has its own specification (SpecParser, SpecPLC, SpecSCADA);   *)
(* the units are separate processes and share no state.                    *)
(* Decimal values are held in tenths (5.0 is 50), integers as they are.    *)
(***************************************************************************)
EXTENDS Integers, Sequences, FiniteSets, TLC

VARIABLES
    \* ---- InputParser.generate_controls
    tree,               \* the parse tree: a sequence of statements (token sequences)
    plcs,               \* self.data['plcs']: sequence of [actuators, controls]
    controls,           \* the local list `controls` of generate_controls
    ppc,                \* "ready" | "done" | "raised"
    praised,            \* the exception generate_controls ended with, or "none"
    \* ---- GenericPLC
    intermediate_controls,  \* self.intermediate_controls: plc['controls'] of the yaml
    hasPeers,           \* the yaml lists other PLCs besides this one
    peerOwns,           \* one of those PLCs lists the tag T2 among its sensors
    self_controls,      \* self.controls: the rules create_controls built
    local_time,         \* self.local_time
    tags,               \* the local tag map: tag -> value
    pc,                 \* position of the PLC's main thread
    idx,                \* position of `for control in self.controls`
    exc,                \* what the except clause caught in the current pass of the loop
    evald,              \* rules applied so far in the current tick
    wlog,               \* <<rule index, tick>> of every completed set_tag
    tickSensor,         \* the sensor value published for the current tick
    lock,               \* holder of the threading.Lock of pre_loop
    srv,                \* position of the inbound request server thread
    slept,              \* time.sleep(0.25) has run since the last clock increment
    \* ---- SCADAServer
    saved_tank_levels,  \* self.saved_tank_levels: the buffer of rows
    spc,                \* position of the collector's main thread
    polled,             \* the values received so far in this pass of the loop
    level,              \* the tank level the PLCs currently answer with (tenths)
    now,                \* datetime.now()
    frames,             \* running sigint_handler invocations, innermost last
    output,             \* rows of scada_saved_tank_levels_received.csv
    flushes,            \* completed writerows calls
    signals,            \* SIGINT/SIGTERM deliveries so far
    bufAtSignal,        \* the buffer when the first signal was delivered
    dropped             \* <<values>> a failed pass had received, until the next receive

parserVars == <<tree, plcs, controls, ppc, praised>>

plcVars == <<intermediate_controls, hasPeers, peerOwns, self_controls, local_time,
             tags, pc, idx, exc, evald, wlog, tickSensor, lock, srv, slept>>

scadaVars == <<saved_tank_levels, spc, polled, level, now, frames, output,
               flushes, signals, bufAtSignal, dropped>>

vars == <<parserVars, plcVars, scadaVars>>

--------------------------------------------------------------------------
(* Bounds of the model *)

MaxStatements == 2      \* statements in the control section
MaxPLCs == 2            \* controllers in the configuration
MaxControls == 2        \* descriptors in one PLC's controls list
MaxTick == 3            \* ticks of the PLC's main loop that are explored
MaxRows == 2            \* rows the collector appends after the header
MaxSignals == 2         \* shutdown signals delivered to the collector

--------------------------------------------------------------------------
(* Strings and numbers as Python converts them *)

\* str.lower() on the tokens that occur
Lower(s) ==
    CASE s \in {"OPEN", "Open", "open"} -> "open"
      [] s \in {"CLOSED", "Closed", "closed"} -> "closed"
      [] s \in {"ACTIVE", "active"} -> "active"
      [] s \in {"ABOVE", "Above", "above"} -> "above"
      [] s \in {"BELOW", "Below", "below"} -> "below"
      [] s \in {"TIME", "Time", "time"} -> "time"
      [] s \in {"AM", "am"} -> "am"
      [] OTHER -> s

\* the literals float() accepts, with their value in tenths
FloatLiterals == {"0", "1", "2", "2.5", "5.0", "6", "10"}

IsFloat(s) == s \in FloatLiterals

\* float(s), in tenths
ParseFloat(s) ==
    CASE s = "0" -> 0
      [] s = "1" -> 10
      [] s = "2" -> 20
      [] s = "2.5" -> 25
      [] s = "5.0" -> 50
      [] s = "6" -> 60
      [] s = "10" -> 100

\* int(v) of a float v held in tenths: truncation toward zero
IntOfFloat(v) == IF v >= 0 THEN v \div 10 ELSE -((-v) \div 10)

--------------------------------------------------------------------------
(* InputParser.generate_controls *)

Actuators == {"PU1", "PU2"}

\* statements of the [CONTROLS] section as the grammar's children
CondAbove == <<"LINK", "PU1", "OPEN", "IF", "NODE", "T1", "ABOVE", "5.0">>
CondBelow == <<"LINK", "PU1", "CLOSED", "IF", "NODE", "T1", "BELOW", "2.5">>
TimeStmt == <<"LINK", "PU2", "Closed", "AT", "TIME", "2.5">>
ClockStmt == <<"LINK", "PU2", "OPEN", "AT", "CLOCKTIME", "6", "AM">>
BadNumber == <<"LINK", "PU2", "OPEN", "AT", "TIME", "<missing NUMBER>">>

Statements == {CondAbove, CondBelow, TimeStmt, ClockStmt, BadNumber}

SeqsUpTo(S, n) == UNION {[1..k -> S] : k \in 0..n}

\* child.getChildCount()
GetChildCount(child) == Len(child)

\* str(child.getChild(i)), i counted from 0
GetChild(child, i) == IF i + 1 <= Len(child) THEN child[i + 1] ELSE "None"

\* the value token float() is applied to, or "None" when the child has none
ValueToken(child) ==
    IF GetChildCount(child) = 8 THEN GetChild(child, 7)
    ELSE IF GetChildCount(child) = 6 THEN GetChild(child, 5)
    ELSE "None"

\* float() raises ValueError on this child
RaisesValueError(child) ==
    /\ GetChildCount(child) \in {6, 8}
    /\ ~IsFloat(ValueToken(child))

\* descriptors that carry the action and the relation as the statement spells them
DescriptorsOfVerbatim(child) ==
    IF GetChildCount(child) = 8
    THEN << [type |-> GetChild(child, 6),
             dependant |-> GetChild(child, 5),
             value |-> ParseFloat(GetChild(child, 7)),
             actuator |-> GetChild(child, 1),
             action |-> GetChild(child, 2)] >>
    ELSE IF GetChildCount(child) = 6
    THEN << [type |-> "time",
             value |-> IntOfFloat(ParseFloat(GetChild(child, 5))),
             actuator |-> GetChild(child, 1),
             action |-> GetChild(child, 2)] >>
    ELSE <<>>

\* the descriptors one child appends to `controls` (lines 91-110)
DescriptorsOf(child) ==
    IF GetChildCount(child) = 8
    THEN << [type |-> Lower(GetChild(child, 6)),
             dependant |-> GetChild(child, 5),
             value |-> ParseFloat(GetChild(child, 7)),
             actuator |-> GetChild(child, 1),
             action |-> Lower(GetChild(child, 2))] >>
    ELSE IF GetChildCount(child) = 6
    THEN << [type |-> "time",
             value |-> IntOfFloat(ParseFloat(GetChild(child, 5))),
             actuator |-> GetChild(child, 1),
             action |-> Lower(GetChild(child, 2))] >>
    ELSE <<>>

\* the loop of lines 85-110 over the first n children
RECURSIVE CompileControls(_, _)
CompileControls(t, n) ==
    IF n = 0 THEN <<>>
    ELSE CompileControls(t, n - 1) \o DescriptorsOf(t[n])

\* lines 115-117: the controls whose actuator is in this PLC's actuators
OwnsControl(control, actuators) == control.actuator \in actuators

Reverse(q) == [i \in 1..Len(q) |-> q[Len(q) + 1 - i]]

\* a distribution that inserts each control at the head of the PLC's list
ControlsForPrepending(cs, actuators) ==
    Reverse(SelectSeq(cs, LAMBDA control : OwnsControl(control, actuators)))

ControlsFor(cs, actuators) ==
    SelectSeq(cs, LAMBDA control : OwnsControl(control, actuators))

\* lines 112-117
Distribute(ps, cs) ==
    [i \in 1..Len(ps) |->
        [actuators |-> ps[i].actuators,
         controls |-> ControlsFor(cs, ps[i].actuators)]]

ParserInit ==
    /\ tree \in SeqsUpTo(Statements, MaxStatements)
    /\ plcs \in SeqsUpTo([actuators : SUBSET Actuators, controls : {<<>>}], MaxPLCs)
    /\ plcs # <<>>
    /\ controls = <<>>
    /\ ppc = "ready"
    /\ praised = "none"

\* generate_controls when no float() fails
GenerateControls ==
    /\ ppc = "ready"
    /\ \A i \in 1..Len(tree) : ~RaisesValueError(tree[i])
    /\ controls' = CompileControls(tree, Len(tree))
    /\ plcs' = Distribute(plcs, controls')
    /\ ppc' = "done"
    /\ UNCHANGED <<plcVars, scadaVars, tree, praised>>

\* generate_controls when float() raises on some child: the exception leaves
\* the method before any plc['controls'] is set
GenerateControlsRaises ==
    /\ ppc = "ready"
    /\ \E i \in 1..Len(tree) :
          /\ RaisesValueError(tree[i])
          /\ \A j \in 1..(i - 1) : ~RaisesValueError(tree[j])
          /\ controls' = CompileControls(tree, i - 1)
    /\ ppc' = "raised"
    /\ praised' = "ValueError"
    /\ UNCHANGED <<plcVars, scadaVars, tree, plcs>>

ParserNext == GenerateControls \/ GenerateControlsRaises

--------------------------------------------------------------------------
(* GenericPLC *)

PlcSensors == {"T1"}            \* intermediate_plc['sensors']
PlcActuators == {"PU1", "PU2"}  \* intermediate_plc['actuators']
SensorValues == {20, 60}        \* levels of T1, in tenths

\* plc['controls'] entries of the yaml the PLC is started with
YamlAboveLocal == [type |-> "Above", dependant |-> "T1", value |-> 50,
                   actuator |-> "PU1", action |-> "open"]
YamlBelowLocal == [type |-> "Below", dependant |-> "T1", value |-> 25,
                   actuator |-> "PU1", action |-> "closed"]
YamlAboveRemote == [type |-> "Above", dependant |-> "T2", value |-> 50,
                    actuator |-> "PU2", action |-> "open"]
YamlTime == [type |-> "Time", value |-> 2, actuator |-> "PU2", action |-> "OPEN"]
YamlTimeZero == [type |-> "Time", value |-> 0, actuator |-> "PU2", action |-> "open"]
YamlTimeInvalid == [type |-> "Time", value |-> 1, actuator |-> "PU1", action |-> "active"]
\* entries as generate_controls writes them (lower-case type)
YamlParsedAbove == [type |-> "above", dependant |-> "T1", value |-> 50,
                    actuator |-> "PU1", action |-> "open"]
YamlParsedTime == [type |-> "time", value |-> 2, actuator |-> "PU2", action |-> "closed"]

YamlControls == {YamlAboveLocal, YamlBelowLocal, YamlAboveRemote, YamlTime,
                 YamlTimeZero, YamlTimeInvalid, YamlParsedAbove, YamlParsedTime}

\* create_controls, one entry (lines 61-66)
CreateControl(control) ==
    IF control.type = "Above"
    THEN << [kind |-> "Above", actuator |-> control.actuator, action |-> control.action,
             dependant |-> control.dependant, value |-> control.value] >>
    ELSE IF control.type = "Below"
    THEN << [kind |-> "Below", actuator |-> control.actuator, action |-> control.action,
             dependant |-> control.dependant, value |-> control.value] >>
    ELSE IF control.type = "Time"
    THEN << [kind |-> "Time", actuator |-> control.actuator, action |-> control.action,
             value |-> control.value] >>
    ELSE <<>>

RECURSIVE CreateControlsUpTo(_, _)
CreateControlsUpTo(cs, n) ==
    IF n = 0 THEN <<>>
    ELSE CreateControlsUpTo(cs, n - 1) \o CreateControl(cs[n])

\* create_controls(controls_list)
create_controls(controls_list) == CreateControlsUpTo(controls_list, Len(controls_list))

\* lines 93-96: control["dependant"] raises KeyError on an entry without it
DependantKeyError(cs) ==
    \E i \in 1..Len(cs) : cs[i].type # "Time" /\ "dependant" \notin DOMAIN cs[i]

\* get_tag reads the tag from the local map (line 146)
IsLocalTag(tag) == tag \in PlcSensors \/ tag \in PlcActuators

\* what get_tag raises for a tag that is not local (lines 149-155): with a peer
\* in the list plc_data[i] looks an integer up in a dict; without, the loop ends
GetTagException(peers) == IF peers THEN "KeyError" ELSE "TagDoesNotExist"

\* a set_tag that compares the value without lower-casing it
IsValidActionCaseSensitive(value) == value \in {"closed", "open"}

\* set_tag accepts the value (lines 158-161)
IsValidAction(value) == Lower(value) \in {"closed", "open"}

\* the number set_tag stores (lines 158-161)
ActionValue(value) == IF Lower(value) = "closed" THEN 0 ELSE 1

\* the condition of a rule's apply on the value read / the clock
\* (control.py: AboveControl, BelowControl, TimeControl)
ConditionHolds(rule, dep_val, clock) ==
    CASE rule.kind = "Above" -> dep_val > rule.value
      [] rule.kind = "Below" -> dep_val < rule.value
      [] rule.kind = "Time" -> clock = rule.value

PLCInit ==
    /\ intermediate_controls \in SeqsUpTo(YamlControls, MaxControls)
    /\ hasPeers \in BOOLEAN
    /\ peerOwns \in {FALSE, hasPeers}
    /\ self_controls = <<>>
    /\ local_time = 0
    /\ tags \in {[t \in PlcSensors \cup PlcActuators |->
                      IF t \in PlcSensors THEN v ELSE 0] : v \in SensorValues}
    /\ pc = "new"
    /\ idx = 0
    /\ exc = "none"
    /\ evald = {}
    /\ wlog = {}
    /\ tickSensor = 0
    /\ lock = "none"
    /\ srv = "off"
    /\ slept = FALSE

\* GenericPLC.__init__ (lines 73-121): build self.controls, then the list of
\* dependant sensors, which fails on an entry that has no "dependant"
Construct ==
    /\ pc = "new"
    /\ self_controls' = create_controls(intermediate_controls)
    /\ IF DependantKeyError(intermediate_controls)
       THEN pc' = "init_failed" /\ exc' = "KeyError"
       ELSE pc' = "constructed" /\ exc' = exc
    /\ UNCHANGED <<parserVars, scadaVars, peerOwns, slept, intermediate_controls, hasPeers, local_time, tags, idx, evald,
                   wlog, tickSensor, lock, srv>>

\* pre_loop (lines 123-143): create the lock, hand it to BasePLC, start the
\* thread that serves inbound requests; the device then enters main_loop
PreLoop ==
    /\ pc = "constructed"
    /\ lock' = "free"
    /\ srv' = "idle"
    /\ pc' = "loop"
    /\ UNCHANGED <<parserVars, scadaVars, peerOwns, slept, intermediate_controls, hasPeers, self_controls, local_time, tags,
                   idx, exc, evald, wlog, tickSensor>>

\* a loop head that advances the clock by two
TickStartSkipping ==
    /\ pc = "loop"
    /\ local_time < MaxTick
    /\ local_time' = local_time + 2
    /\ idx' = 1
    /\ evald' = {}
    /\ tickSensor' = tags["T1"]
    /\ exc' = "none"
    /\ slept' = FALSE
    /\ pc' = "apply"
    /\ UNCHANGED <<parserVars, scadaVars, peerOwns, intermediate_controls, hasPeers,
                   self_controls, tags, wlog, lock, srv>>

\* line 176 and the start of the for loop
TickStart ==
    /\ pc = "loop"
    /\ local_time < MaxTick
    /\ local_time' = local_time + 1
    /\ idx' = 1
    /\ evald' = {}
    /\ tickSensor' = tags["T1"]
    /\ exc' = "none"
    /\ slept' = FALSE
    /\ pc' = "apply"
    /\ UNCHANGED <<parserVars, scadaVars, peerOwns, intermediate_controls, hasPeers,
                   self_controls, tags, wlog, lock, srv>>

\* where the main thread goes when set_tag(rule.actuator, rule.action) is called:
\* into the write, or to the except clause with InvalidControlValue (line 163)
EnterSetTag(rule) ==
    IF IsValidAction(rule.action)
    THEN pc' = "set" /\ idx' = idx /\ exc' = exc
    ELSE pc' = "loop" /\ idx' = idx /\ exc' = "InvalidControlValue"

\* the rule's condition is false: on to the next rule
NextRule == pc' = "apply" /\ idx' = idx + 1 /\ exc' = exc

\* control.apply(self) for a TimeControl (line 179)
ApplyTime ==
    /\ pc = "apply"
    /\ idx <= Len(self_controls)
    /\ self_controls[idx].kind = "Time"
    /\ evald' = evald \cup {idx}
    /\ IF ConditionHolds(self_controls[idx], 0, local_time)
       THEN EnterSetTag(self_controls[idx])
       ELSE NextRule
    /\ UNCHANGED <<parserVars, scadaVars, peerOwns, slept, intermediate_controls, hasPeers, self_controls, local_time, tags,
                   wlog, tickSensor, lock, srv>>

\* control.apply(self) for an Above/Below control: get_tag(dependant) starts a
\* local read, without the lock (lines 145-147), or raises (lines 149-155)
ApplyCondition ==
    /\ pc = "apply"
    /\ idx <= Len(self_controls)
    /\ self_controls[idx].kind \in {"Above", "Below"}
    /\ evald' = evald \cup {idx}
    /\ IF IsLocalTag(self_controls[idx].dependant)
       THEN pc' = "get" /\ exc' = exc
       ELSE pc' = "loop" /\ exc' = GetTagException(hasPeers)
    /\ UNCHANGED <<parserVars, scadaVars, peerOwns, slept, intermediate_controls, hasPeers, self_controls, local_time, tags,
                   idx, wlog, tickSensor, lock, srv>>

\* self.get returns; the rule compares and, if its condition holds, calls set_tag
GetDone ==
    /\ pc = "get"
    /\ IF ConditionHolds(self_controls[idx], tags[self_controls[idx].dependant], local_time)
       THEN EnterSetTag(self_controls[idx])
       ELSE NextRule
    /\ UNCHANGED <<parserVars, scadaVars, peerOwns, slept, intermediate_controls, hasPeers, self_controls, local_time, tags,
                   evald, wlog, tickSensor, lock, srv>>

\* self.set((tag, 1), value) of set_tag (line 165), without the lock
SetDone ==
    /\ pc = "set"
    /\ tags' = [tags EXCEPT ![self_controls[idx].actuator] =
                                ActionValue(self_controls[idx].action)]
    /\ wlog' = wlog \cup {<<idx, local_time>>}
    /\ pc' = "apply"
    /\ idx' = idx + 1
    /\ UNCHANGED <<parserVars, scadaVars, peerOwns, slept, intermediate_controls, hasPeers, self_controls, local_time, exc,
                   evald, tickSensor, lock, srv>>

\* the for loop is exhausted: time.sleep(0.25) (line 181)
ForDone ==
    /\ pc = "apply"
    /\ idx > Len(self_controls)
    /\ pc' = "sleep"
    /\ UNCHANGED <<parserVars, scadaVars, peerOwns, slept, intermediate_controls, hasPeers, self_controls, local_time, tags,
                   idx, exc, evald, wlog, tickSensor, lock, srv>>

\* the sleep ends; back to `while True`
Sleep ==
    /\ pc = "sleep"
    /\ pc' = "loop"
    /\ slept' = TRUE
    /\ UNCHANGED <<parserVars, scadaVars, peerOwns, intermediate_controls, hasPeers, self_controls, local_time, tags,
                   idx, exc, evald, wlog, tickSensor, lock, srv>>

\* the physical process publishes a new level of T1 between two ticks
SensorUpdate ==
    /\ pc = "loop"
    /\ local_time < MaxTick
    /\ \E v \in SensorValues : v # tags["T1"] /\ tags' = [tags EXCEPT !["T1"] = v]
    /\ UNCHANGED <<parserVars, scadaVars, peerOwns, slept, intermediate_controls, hasPeers, self_controls, local_time, pc,
                   idx, exc, evald, wlog, tickSensor, lock, srv>>

\* the inbound request server takes the lock and starts one read of the map
ServerAcquire ==
    /\ srv = "idle"
    /\ lock = "free"
    /\ lock' = "server"
    /\ srv' = "access"
    /\ UNCHANGED <<parserVars, scadaVars, peerOwns, slept, intermediate_controls, hasPeers, self_controls, local_time, tags,
                   pc, idx, exc, evald, wlog, tickSensor>>

\* the read is done; the server releases the lock and answers
ServerRelease ==
    /\ srv = "access"
    /\ lock' = "free"
    /\ srv' = "idle"
    /\ UNCHANGED <<parserVars, scadaVars, peerOwns, slept, intermediate_controls, hasPeers, self_controls, local_time, tags,
                   pc, idx, exc, evald, wlog, tickSensor>>

PLCNext ==
    \/ Construct
    \/ PreLoop
    \/ TickStart
    \/ ApplyTime
    \/ ApplyCondition
    \/ GetDone
    \/ SetDone
    \/ ForDone
    \/ Sleep
    \/ SensorUpdate
    \/ ServerAcquire
    \/ ServerRelease

--------------------------------------------------------------------------
(* SCADAServer *)

\* line 31
Header == <<"iteration", "timestamp", "T1", "T2", "T3", "T4", "T5", "T7">>

\* the receive calls of lines 41-46, in order
PolledTags == <<"T1", "T2", "T3", "T4", "T5", "T7">>

Levels == {20, 60}

\* line 47: the row appended from the values of this pass
RowOf(timestamp, values) == <<timestamp>> \o values

\* a handle that writes after the file's present content
WriteRowsAtEnd(file, rows) == file \o rows

\* writer.writerows(rows) through a handle opened at the start of the file:
\* the rows replace what the file holds at their positions
WriteRows(file, rows) ==
    rows \o SubSeq(file, Len(rows) + 1, Len(file))

\* SystemExit leaves every running handler: a `with` block left after its
\* writerows closes its handle, which writes what the handle still buffers
RECURSIVE CloseOnExit(_, _, _)
CloseOnExit(file, fs, n) ==
    IF n = 0 THEN file
    ELSE CloseOnExit(IF fs[n].hpc = "written" THEN WriteRows(file, fs[n].pending)
                     ELSE file,
                     fs, n - 1)

SCADAInit ==
    /\ saved_tank_levels = <<>>
    /\ spc = "pre_loop"
    /\ polled = <<>>
    /\ level \in Levels
    /\ now = 1
    /\ frames = <<>>
    /\ output = <<>>
    /\ flushes = 0
    /\ signals = 0
    /\ bufAtSignal = <<>>
    /\ dropped = <<>>

\* pre_loop (lines 27-33): the header row, then the two handlers
ScadaPreLoop ==
    /\ spc = "pre_loop"
    /\ saved_tank_levels' = <<Header>>
    /\ spc' = "poll"
    /\ UNCHANGED <<parserVars, plcVars, dropped, polled, level, now, frames, output, flushes, signals, bufAtSignal>>

\* one receive of lines 41-46 answers
PollOk ==
    /\ spc = "poll"
    /\ frames = <<>>
    /\ Len(polled) < Len(PolledTags)
    /\ Len(saved_tank_levels) <= MaxRows
    /\ polled' = Append(polled, level)
    /\ dropped' = <<>>
    /\ UNCHANGED <<parserVars, plcVars, saved_tank_levels, spc, level, now, frames, output, flushes,
                   signals, bufAtSignal>>

\* an except clause that keeps what the pass had received as a short row
PollFailsKeepingRow ==
    /\ spc = "poll"
    /\ frames = <<>>
    /\ Len(polled) < Len(PolledTags)
    /\ Len(saved_tank_levels) <= MaxRows
    /\ saved_tank_levels' = Append(saved_tank_levels, RowOf(now, polled))
    /\ polled' = <<>>
    /\ dropped' = <<polled>>
    /\ UNCHANGED <<parserVars, plcVars, spc, level, now, frames, output, flushes,
                   signals, bufAtSignal>>

\* one receive raises: the except clause prints and continues (lines 49-51)
PollFails ==
    /\ spc = "poll"
    /\ frames = <<>>
    /\ Len(polled) < Len(PolledTags)
    /\ Len(saved_tank_levels) <= MaxRows
    /\ polled' = <<>>
    /\ dropped' = <<polled>>
    /\ UNCHANGED <<parserVars, plcVars, saved_tank_levels, spc, level, now, frames, output, flushes,
                   signals, bufAtSignal>>

\* line 47
AppendRow ==
    /\ spc = "poll"
    /\ frames = <<>>
    /\ Len(polled) = Len(PolledTags)
    /\ saved_tank_levels' = Append(saved_tank_levels, RowOf(now, polled))
    /\ spc' = "sleep"
    /\ UNCHANGED <<parserVars, plcVars, dropped, polled, level, now, frames, output, flushes, signals, bufAtSignal>>

\* line 48: time.sleep(0.3); time passes and the tanks move
ScadaSleep ==
    /\ spc = "sleep"
    /\ frames = <<>>
    /\ spc' = "poll"
    /\ polled' = <<>>
    /\ now' = now + 1
    /\ level' \in Levels
    /\ UNCHANGED <<parserVars, plcVars, dropped, saved_tank_levels, frames, output, flushes, signals, bufAtSignal>>

\* SIGINT or SIGTERM is delivered once the handlers are installed: Python runs
\* sigint_handler on the main thread before its next instruction, also when a
\* handler is already running
Signal ==
    /\ spc \in {"poll", "sleep"}
    /\ signals < MaxSignals
    /\ signals' = signals + 1
    /\ frames' = Append(frames, [hpc |-> "entered", pending |-> <<>>])
    /\ bufAtSignal' = IF signals = 0 THEN saved_tank_levels ELSE bufAtSignal
    /\ UNCHANGED <<parserVars, plcVars, dropped, saved_tank_levels, spc, polled, level, now, output, flushes>>

Top == frames[Len(frames)]

SetTop(f) == [frames EXCEPT ![Len(frames)] = f]

\* write_output, line 19: open(..., 'w') truncates the file
HandlerOpen ==
    /\ frames # <<>>
    /\ Top.hpc = "entered"
    /\ output' = <<>>
    /\ frames' = SetTop([hpc |-> "opened", pending |-> <<>>])
    /\ UNCHANGED <<parserVars, plcVars, dropped, saved_tank_levels, spc, polled, level, now, flushes, signals,
                   bufAtSignal>>

\* write_output, line 21: writerows hands every row of the buffer to the handle
HandlerWriteRows ==
    /\ frames # <<>>
    /\ Top.hpc = "opened"
    /\ frames' = SetTop([hpc |-> "written", pending |-> saved_tank_levels])
    /\ flushes' = flushes + 1
    /\ UNCHANGED <<parserVars, plcVars, dropped, saved_tank_levels, spc, polled, level, now, output, signals,
                   bufAtSignal>>

\* the end of the `with` block closes the handle
HandlerClose ==
    /\ frames # <<>>
    /\ Top.hpc = "written"
    /\ output' = WriteRows(output, Top.pending)
    /\ frames' = SetTop([hpc |-> "closed", pending |-> <<>>])
    /\ UNCHANGED <<parserVars, plcVars, dropped, saved_tank_levels, spc, polled, level, now, flushes, signals,
                   bufAtSignal>>

\* line 25: sys.exit(0); SystemExit is no Exception, so main_loop's except
\* clause lets it through and the process ends
HandlerExit ==
    /\ frames # <<>>
    /\ Top.hpc = "closed"
    /\ output' = CloseOnExit(output, frames, Len(frames))
    /\ frames' = <<>>
    /\ spc' = "exited"
    /\ UNCHANGED <<parserVars, plcVars, dropped, saved_tank_levels, polled, level, now, flushes, signals, bufAtSignal>>

SCADANext ==
    \/ ScadaPreLoop
    \/ PollOk
    \/ PollFails
    \/ AppendRow
    \/ ScadaSleep
    \/ Signal
    \/ HandlerOpen
    \/ HandlerWriteRows
    \/ HandlerClose
    \/ HandlerExit

--------------------------------------------------------------------------
(* Specifications *)

\* a unit that is not run
ParserOff ==
    /\ tree = <<>> /\ plcs = <<>> /\ controls = <<>> /\ ppc = "off" /\ praised = "none"

PLCOff ==
    /\ intermediate_controls = <<>> /\ hasPeers = FALSE /\ peerOwns = FALSE
    /\ self_controls = <<>> /\ slept = FALSE
    /\ local_time = 0 /\ tags = <<>> /\ pc = "off" /\ idx = 0 /\ exc = "none"
    /\ evald = {} /\ wlog = {} /\ tickSensor = 0 /\ lock = "none" /\ srv = "off"

SCADAOff ==
    /\ saved_tank_levels = <<>> /\ spc = "off" /\ polled = <<>> /\ level = 0
    /\ now = 0 /\ frames = <<>> /\ output = <<>> /\ flushes = 0 /\ signals = 0
    /\ bufAtSignal = <<>> /\ dropped = <<>>

InitParser == ParserInit /\ PLCOff /\ SCADAOff

InitPLC == ParserOff /\ PLCInit /\ SCADAOff

InitSCADA == ParserOff /\ PLCOff /\ SCADAInit

\* input_parser.py run on one control section and one configuration
SpecParser == InitParser /\ [][ParserNext]_vars

\* one generic_plc.py process
SpecPLC == InitPLC /\ [][PLCNext]_vars

\* the scada.py process
SpecSCADA == InitSCADA /\ [][SCADANext]_vars

\* the three units side by side
Init == ParserInit /\ PLCInit /\ SCADAInit

Next == ParserNext \/ PLCNext \/ SCADANext

Spec == Init /\ [][Next]_vars

--------------------------------------------------------------------------
(* Properties of generate_controls *)

\* the two productions of the control language: SET actuator action IF
\* dependant ABOVE|BELOW value, and SET actuator action AT TIME tick
IsConditional(child) ==
    /\ GetChildCount(child) = 8
    /\ GetChild(child, 3) = "IF"
    /\ Lower(GetChild(child, 6)) \in {"above", "below"}

IsTemporal(child) ==
    /\ GetChildCount(child) = 6
    /\ GetChild(child, 3) = "AT"
    /\ GetChild(child, 4) = "TIME"

\* the controllers whose actuator set contains the descriptor's actuator
Owners(control) == {p \in 1..Len(plcs) : control.actuator \in plcs[p].actuators}

InList(control, list) == \E k \in 1..Len(list) : list[k] = control

\* C1: once generate_controls has returned, every compiled descriptor is in the
\* controls list of exactly one controller, the single owner of its actuator;
\* a descriptor with no owner or with several owners would have made the call
\* fail (UnassignedControlError, DuplicateOwnershipError) instead of returning.
C1_AssignedToExactlyOneOwner ==
    ppc = "done" =>
        \A i \in 1..Len(controls) :
            /\ Cardinality(Owners(controls[i])) = 1
            /\ \A p \in 1..Len(plcs) :
                  InList(controls[i], plcs[p].controls) <=> p \in Owners(controls[i])

\* C2: a statement that is neither a conditional nor a temporal control makes
\* generate_controls fail with ParseError, and a call that returns has emitted
\* one descriptor per statement.
C2_NoStatementSilentlyDropped ==
    /\ (ppc # "ready" /\ \E i \in 1..Len(tree) :
                            ~IsConditional(tree[i]) /\ ~IsTemporal(tree[i]))
          => praised = "ParseError"
    /\ ppc = "done" => Len(controls) = Len(tree)

--------------------------------------------------------------------------
(* Properties of GenericPLC *)

\* a pass of main_loop has ended and the next has not begun
TickEnded == pc \in {"sleep", "loop"} /\ local_time >= 1

ReadFailures == {"KeyError", "TagDoesNotExist"}

\* C3: when a rule's evaluation fails with a read failure, the later rules of
\* the list are still evaluated in that tick: at the end of such a tick every
\* rule of self.controls has been applied.
C3_LaterRulesStillEvaluated ==
    (TickEnded /\ exc \in ReadFailures) => evald = 1..Len(self_controls)

\* C4: a Time rule with trigger tick k >= 1 and a valid action writes in tick k
\* and in no other tick: once tick k has ended the write of tick k is logged,
\* and no write of the rule is logged for another tick.
C4_TimeRuleFiresOnceAtK ==
    \A i \in 1..Len(self_controls) :
        (/\ self_controls[i].kind = "Time"
         /\ self_controls[i].value >= 1
         /\ IsValidAction(self_controls[i].action))
        =>
        /\ \A w \in wlog : w[1] = i => w[2] = self_controls[i].value
        /\ (TickEnded /\ local_time >= self_controls[i].value)
              => <<i, self_controls[i].value>> \in wlog

\* C5: InvalidControlValue raised by set_tag is not caught by main_loop: the
\* controller terminates.
C5_InvalidControlValueTerminates ==
    exc = "InvalidControlValue" => pc = "terminated"

\* the rule loaded from a descriptor, whatever the case of its type
SameRule(rule, control) ==
    /\ rule.kind \in {"Above", "Below"}
    /\ Lower(rule.kind) = Lower(control.type)
    /\ rule.actuator = control.actuator
    /\ rule.action = control.action
    /\ rule.dependant = control.dependant
    /\ rule.value = control.value

\* the descriptor's condition on a sensor value
DescriptorHolds(control, v) ==
    IF Lower(control.type) = "above" THEN v > control.value ELSE v < control.value

\* C6: for every Above/Below descriptor of the controller with a local
\* dependant and a valid action: at the end of a tick in which the sensor is
\* beyond the threshold the rule has written in that tick and the actuator
\* holds the action; in a tick in which it is not, the rule does not write.
C6_LevelTriggered ==
    \A j \in 1..Len(intermediate_controls) :
        (/\ pc \notin {"new", "init_failed"}
         /\ Lower(intermediate_controls[j].type) \in {"above", "below"}
         /\ IsLocalTag(intermediate_controls[j].dependant)
         /\ IsValidAction(intermediate_controls[j].action))
        =>
        /\ (TickEnded /\ DescriptorHolds(intermediate_controls[j], tickSensor))
              => /\ \E w \in wlog :
                       /\ w[2] = local_time
                       /\ SameRule(self_controls[w[1]], intermediate_controls[j])
                 /\ tags[intermediate_controls[j].actuator]
                       = ActionValue(intermediate_controls[j].action)
        /\ \A w \in wlog :
              (/\ w[2] = local_time
               /\ SameRule(self_controls[w[1]], intermediate_controls[j]))
              => DescriptorHolds(intermediate_controls[j], tickSensor)

\* C10: the evaluation loop and the inbound server access the tag map only
\* while holding the controller's lock, and never at the same time.
C10_MapAccessUnderLock ==
    /\ pc \in {"get", "set"} => lock = "main"
    /\ srv = "access" => lock = "server"
    /\ ~(pc \in {"get", "set"} /\ srv = "access")

--------------------------------------------------------------------------
(* Properties of SCADAServer *)

\* C7: whatever signals arrive, the buffer is written out exactly once and the
\* collector exits: never a second write, and one write when it has exited.
C7_FlushedExactlyOnce ==
    /\ flushes <= 1
    /\ spc = "exited" => flushes = 1

IsPrefix(a, b) == Len(a) <= Len(b) /\ SubSeq(b, 1, Len(a)) = a

\* C8: the buffer only grows at its end, and when the collector has exited the
\* file holds exactly the rows the buffer held when the shutdown was requested,
\* in buffer order, none lost and none twice.
C8_FlushPreservesBuffer ==
    /\ [][IsPrefix(saved_tank_levels, saved_tank_levels')]_vars
    /\ [](spc = "exited" => output = bufAtSignal /\ output = saved_tank_levels)

\* C8 witness: the collector has exited after two handler runs wrote a buffer
\* of a header and two rows.
C8_Witness ==
    /\ spc = "exited"
    /\ flushes = 2
    /\ Len(bufAtSignal) = 3
    /\ output = bufAtSignal

\* C9: every row after the header has one field per header column, the first
\* being the tick index.
C9_RowsMatchHeader ==
    \A i \in 2..Len(saved_tank_levels) :
        /\ Len(saved_tank_levels[i]) = Len(Header)
        /\ saved_tank_levels[i][1] = i - 1

--------------------------------------------------------------------------
(* Further properties of generate_controls *)

\* the strictly increasing maps of the positions of a into the positions of b
OrderedMaps(a, b) ==
    {f \in [1..Len(a) -> 1..Len(b)] :
        \A i, j \in 1..Len(a) : i < j => f[i] < f[j]}

\* a is b with some elements left out, the others in b's order
IsSubsequence(a, b) == \E f \in OrderedMaps(a, b) : \A i \in 1..Len(a) : a[i] = b[f[i]]

\* the descriptor is the one written for this statement
Describes(control, child) ==
    /\ control.actuator = child[2]
    /\ control.action = Lower(child[3])
    /\ \/ Len(child) = 6 /\ control.type = "time"
       \/ Len(child) = 8 /\ control.type = Lower(child[7])
                         /\ control.dependant = child[6]

\* C11: the descriptors are emitted in the order of their statements, and each
\* controller's controls list holds its descriptors in their order of emission.
C11_OrderPreserved ==
    ppc = "done" =>
        /\ \E f \in OrderedMaps(controls, tree) :
              \A i \in 1..Len(controls) : Describes(controls[i], tree[f[i]])
        /\ \A p \in 1..Len(plcs) : IsSubsequence(plcs[p].controls, controls)

\* C11 witness: a controller was given two different descriptors.
C11_Witness ==
    /\ ppc = "done"
    /\ \E p \in 1..Len(plcs) :
          /\ Len(plcs[p].controls) = 2
          /\ plcs[p].controls[1] # plcs[p].controls[2]
          /\ plcs[p].controls = controls

--------------------------------------------------------------------------
(* Further properties of SCADAServer *)

\* the pass of main_loop that was running has appended its row
PassCompleted ==
    /\ Len(polled) = Len(PolledTags)
    /\ Len(saved_tank_levels) >= 2
    /\ saved_tank_levels[Len(saved_tank_levels)] = RowOf(now, polled)

\* C12: a shutdown request never ends the collector in the middle of a tick:
\* when it has exited, the pass that was running had not received anything yet
\* or has appended its row.
C12_NoExitInMidTick ==
    spc = "exited" => (polled = <<>> \/ PassCompleted)

\* a pass has failed and no receive has answered since
PassFailed == dropped # <<>>

\* no row carries the timestamp of the running pass
NoRowOfThisPass ==
    \A i \in 2..Len(saved_tank_levels) : saved_tank_levels[i][1] # now

\* every row after the header has the timestamp and one value per polled tag
RowsComplete ==
    \A i \in 2..Len(saved_tank_levels) :
        Len(saved_tank_levels[i]) = 1 + Len(PolledTags)

\* C13 as stated: after a failed receive the collector is still polling, no
\* partial row is in the buffer, and the values the pass had received are
\* recorded in a row of that pass.
C13_ReceivedValuesRecorded ==
    /\ RowsComplete
    /\ PassFailed =>
          /\ signals = 0 => spc = "poll"
          /\ dropped[1] # <<>> =>
                \E i \in 2..Len(saved_tank_levels) :
                    /\ saved_tank_levels[i][1] = now
                    /\ IsPrefix(dropped[1], Tail(saved_tank_levels[i]))

\* C13 amended: after a failed receive the collector is still polling, from
\* the first tag again; the failed pass has appended no row, partial or full,
\* and the values it had received are discarded.
C13_FailedPassAppendsNothing ==
    /\ RowsComplete
    /\ PassFailed =>
          /\ signals = 0 => spc = "poll"
          /\ polled = <<>>
          /\ NoRowOfThisPass

\* C13 witness: the second pass failed after two receives had answered.
C13_Witness ==
    /\ PassFailed
    /\ Len(dropped[1]) = 2
    /\ Len(saved_tank_levels) = 2
    /\ spc = "poll"

--------------------------------------------------------------------------
(* Further properties of generate_controls *)

ConditionalKeys == {"type", "dependant", "value", "actuator", "action"}
TemporalKeys == {"type", "value", "actuator", "action"}

\* the thresholds float() can return, in tenths
Thresholds == {ParseFloat(l) : l \in FloatLiterals}

WellFormedDescriptor(c) ==
    /\ c.type \in {"above", "below", "time"}
    /\ c.type \in {"above", "below"} =>
          /\ DOMAIN c = ConditionalKeys
          /\ c.value \in Thresholds
    /\ c.type = "time" =>
          /\ DOMAIN c = TemporalKeys
          /\ c.value \in Nat
    /\ c.action \in {"open", "closed"}

--------------------------------------------------------------------------
(* Further properties of GenericPLC *)

\* the tick was ended by get_tag on the dependant of rule idx, which is not a
\* tag of this controller
NonLocalReadEnded ==
    /\ pc = "loop"
    /\ local_time >= 1
    /\ idx \in evald
    /\ self_controls[idx].kind \in {"Above", "Below"}
    /\ ~IsLocalTag(self_controls[idx].dependant)

\* C15: a read of a tag that a peer owns does not block the tick: when the
\* peer does not answer, the read ends with a timeout failure, and the tick ends.
C15_RemoteReadEndsInTimeout ==
    (NonLocalReadEnded /\ peerOwns) => exc = "RemoteReadTimeout"

\* C18: get_tag starts a local read only of a tag of this controller; a read
\* of a tag that a peer owns does not raise before the receive, and
\* TagDoesNotExist is raised only when no controller owns the tag.
C18_GetTagResolvesOwner ==
    /\ pc = "get" => IsLocalTag(self_controls[idx].dependant)
    /\ peerOwns => ~(NonLocalReadEnded /\ exc \in ReadFailures)
    /\ exc = "TagDoesNotExist" => ~peerOwns

\* the entry is a descriptor generate_controls writes for some statement
WrittenByGenerateControls(control) ==
    \E child \in Statements :
        /\ ~RaisesValueError(child)
        /\ DescriptorsOf(child) = <<control>>

\* C16: on a controls list written by generate_controls the constructor
\* completes, and self.controls holds one rule per descriptor, of the
\* descriptor's kind and in the descriptor's place.
C16_InitLoadsOneRulePerDescriptor ==
    (/\ pc # "new"
     /\ \A j \in 1..Len(intermediate_controls) :
            WrittenByGenerateControls(intermediate_controls[j]))
    => /\ pc # "init_failed"
       /\ Len(self_controls) = Len(intermediate_controls)
       /\ \A j \in 1..Len(self_controls) :
             Lower(self_controls[j].kind) = intermediate_controls[j].type

\* the main thread applies the rule at idx in this step
AppliesRule ==
    /\ pc = "apply"
    /\ idx <= Len(self_controls)
    /\ <<pc, idx, exc>>' # <<pc, idx, exc>>

\* the clock in a step: unchanged, or one more at the head of an iteration,
\* before any rule of that iteration is applied
ClockStep ==
    /\ local_time' \in {local_time, local_time + 1}
    /\ local_time' # local_time => (pc = "loop" /\ pc' = "apply" /\ evald' = {})

\* a rule is applied after exactly the rules before it in the list, and not
\* a second time
InListOrderOnce ==
    AppliesRule => /\ evald = 1..(idx - 1)
                   /\ evald' = 1..idx
                   /\ local_time' = local_time

\* C17: the clock starts at 0 and every iteration of main_loop adds exactly 1
\* to it before any rule is applied; in an iteration in which no evaluation
\* fails the rules are applied in list order, each exactly once.
C17_ClockThenRulesInOrder ==
    /\ [](pc \in {"new", "constructed", "init_failed"} => local_time = 0)
    /\ [](pc = "sleep" => (exc = "none" /\ evald = 1..Len(self_controls)))
    /\ [][ClockStep /\ InListOrderOnce]_vars

\* C17 witness: the second iteration applied two rules and none failed.
C17_Witness ==
    /\ pc = "sleep"
    /\ local_time = 2
    /\ Len(self_controls) = 2
    /\ evald = {1, 2}
    /\ exc = "none"

\* the main thread calls set_tag in this step
CallsSetTag ==
    /\ pc \in {"apply", "get"}
    /\ pc' = "set" \/ exc' = "InvalidControlValue"

\* set_tag's write of the rule at idx happens in this step
WritesTag == pc = "set" /\ pc' # "set"

\* C19: set_tag stores 0 for 'closed' and 1 for 'open', whatever the case of
\* the letters, and nothing else in the map changes; for any other value it
\* raises InvalidControlValue and the map is unchanged.
C19_SetTagWritesOrRaises ==
    [][/\ CallsSetTag =>
             /\ pc' = "set" <=> Lower(self_controls[idx].action) \in {"open", "closed"}
             /\ tags' = tags
       /\ WritesTag =>
             tags' = [tags EXCEPT ![self_controls[idx].actuator] =
                         IF Lower(self_controls[idx].action) = "open" THEN 1 ELSE 0]
      ]_vars

\* C19 witness: set_tag raised on 'active' in tick 1 and wrote 1 for 'OPEN'
\* in tick 2.
C19_Witness ==
    /\ Len(self_controls) = 2
    /\ self_controls[1].action = "OPEN"
    /\ self_controls[2].action = "active"
    /\ local_time = 2
    /\ <<1, 2>> \in wlog
    /\ tags[self_controls[1].actuator] = 1
    /\ tags[self_controls[2].actuator] = 0

\* C20: between two consecutive increments of the clock the controller has
\* slept for the cycle period, also when a rule of the earlier tick failed.
C20_SleepsBetweenTicks ==
    [][(local_time >= 1 /\ local_time' = local_time + 1) => slept]_vars

=============================================================================
